---- MODULE Spec2Model ----
(***************************************************************************)
(* SlackReader (gpt_index/readers/slack.py): load_data, _read_channel and  *)
(* _read_message as a state machine whose steps are the remote requests    *)
(* (conversations.history, conversations.replies) the reader issues.       *)
(* The remote data set is fixed in Init: the pages of every channel and    *)
(* thread, and which request of the call, if any, fails with SlackApiError.*)
(*                                                                         *)
(* SimpleDirectoryReader (gpt_index/readers/file.py): __init__ and         *)
(* load_data as a second state machine, DirSpec, over a directory whose    *)
(* entries and iteration order are fixed in DirInit and to which files are *)
(* added while the reader lives.                                           *)
(***************************************************************************)
EXTENDS Integers, Sequences, FiniteSets, TLC

VARIABLES
    load_kwargs,      \* the keyword arguments of the load_data call
    remote,           \* the remote data set: page sizes of every channel and thread
    pc,               \* where the call stands
    error,            \* the exception that left load_data, if any
    results,          \* load_data: results
    ci,               \* load_data: position of the for loop in channel_ids
    result_messages,  \* _read_channel: result_messages
    next_cursor,      \* _read_channel: next_cursor
    result,           \* _read_channel: result (the page in hand)
    mi,               \* _read_channel: position of the for loop in the page
    messages_text,    \* _read_message: messages_text
    msg_cursor,       \* _read_message: next_cursor
    log,              \* the requests of the call so far (the first MaxLog of them)
    returned,         \* what the earlier load_data calls returned or raised
    input_dir,        \* SimpleDirectoryReader: the entries of input_dir, as iterdir gives them
    exclude_hidden,   \* SimpleDirectoryReader.__init__: exclude_hidden
    input_files,      \* SimpleDirectoryReader: self.input_files
    dir_pc,           \* where the SimpleDirectoryReader stands
    dir_log           \* the load_data calls on it and the files added, in order

slack_vars == <<load_kwargs, remote, pc, error, results, ci, result_messages,
                next_cursor, result, mi, messages_text, msg_cursor, log, returned>>

dir_vars == <<input_dir, exclude_hidden, input_files, dir_pc, dir_log>>

vars == <<slack_vars, dir_vars>>

----------------------------------------------------------------------------
(* Bounds of the model. *)

MaxChannels == 2       \* channel ids in one load_data call
MaxPerPage == 2        \* message records on one history page
MaxPerThreadPage == 2  \* reply records on one replies page
MaxOut == 4            \* result_messages entries at which the model stops a read
MaxLog == 8            \* requests recorded in log; the failing one is among them
MaxCalls == 2          \* load_data calls on one reader
MaxEntries == 3        \* entries of the directory
MaxDirLog == 3         \* load_data calls and added files recorded in dir_log

\* Pages of one channel history, and of one thread.
PageCounts == {1, 2}

ChannelIds == {"c1", "c2"}

None == "None"

\* A page without the next-cursor field: reading the field raises KeyError.
Missing == "Missing"

----------------------------------------------------------------------------
(* The remote data set. *)

\* Page-size vectors: a chain of pages with 0..maxPer records each.
SizeVectors(maxPer) == UNION {[1..n -> 0..maxPer] : n \in PageCounts}

RECURSIVE SumUpTo(_, _)
SumUpTo(sizes, k) == IF k = 0 THEN 0 ELSE sizes[k] + SumUpTo(sizes, k - 1)

\* The continuation token the k-th page of a chain hands out.
CursorOf(k) == "cur" \o ToString(k)

\* The ts of the n-th message of a channel history.
TsOf(n) == "ts" \o ToString(n)

\* The text of the j-th record of the thread anchored at ts in channel c
\* (j = 1 is the anchor itself).
TextOf(c, ts, j) == c \o "/" \o ts \o "/" \o ToString(j)

\* The k-th page of a channel history with the given page sizes. The last page
\* has has_more false and no next-cursor field.
HistoryPage(sizes, k) ==
    [messages |-> [i \in 1..sizes[k] |-> [ts |-> TsOf(SumUpTo(sizes, k - 1) + i)]],
     has_more |-> k < Len(sizes),
     next_cursor |-> IF k < Len(sizes) THEN CursorOf(k) ELSE Missing]

\* The k-th page of the thread anchored at ts in channel c.
RepliesPage(c, ts, sizes, k) ==
    [messages |-> [i \in 1..sizes[k] |->
                      [text |-> TextOf(c, ts, SumUpTo(sizes, k - 1) + i)]],
     has_more |-> k < Len(sizes),
     next_cursor |-> IF k < Len(sizes) THEN CursorOf(k) ELSE Missing]

\* The page a cursor stands for: the first page for None, else the page after
\* the one that handed the cursor out.
PageIndex(sizes, cursor) ==
    IF cursor = None THEN 1
    ELSE 1 + CHOOSE k \in 1..Len(sizes) : CursorOf(k) = cursor

\* client.conversations_history(channel=, cursor=) on the remote data set.
conversations_history(channel, cursor) ==
    HistoryPage(remote.history[channel], PageIndex(remote.history[channel], cursor))

\* client.conversations_replies(channel=, ts=, cursor=) on the remote data set.
conversations_replies(channel, ts, cursor) ==
    RepliesPage(channel, ts, remote.thread, PageIndex(remote.thread, cursor))

----------------------------------------------------------------------------
(* Pure pieces of the reader. *)

\* sep.join(seq)
RECURSIVE Join(_, _)
Join(sep, seq) ==
    IF Len(seq) = 0 THEN ""
    ELSE IF Len(seq) = 1 THEN seq[1]
    ELSE seq[1] \o sep \o Join(sep, Tail(seq))

\* A slip in AppendTexts: the texts of a page put before those already read.
AppendTexts_Prepended(acc, messages) ==
    [i \in 1..Len(messages) |-> messages[i].text] \o acc

\* for message in messages: messages_text.append(message["text"])
AppendTexts(acc, messages) ==
    acc \o [i \in 1..Len(messages) |-> messages[i].text]

\* "\n\n".join(messages_text), the value _read_message returns
ThreadText(texts) == Join("\n\n", texts)

\* A slip in ChannelContent: a single line break between thread texts.
ChannelContent_LineJoined(msgs) == Join("\n", msgs)

\* A slip in ChannelContent: the separator put after every thread text.
RECURSIVE ChannelContent_Terminated(_)
ChannelContent_Terminated(msgs) ==
    IF Len(msgs) = 0 THEN "\n\n"
    ELSE IF Len(msgs) = 1 THEN msgs[1] \o "\n\n"
    ELSE msgs[1] \o "\n\n" \o ChannelContent_Terminated(Tail(msgs))

\* "\n\n".join(result_messages), the value _read_channel returns
ChannelContent(msgs) == Join("\n\n", msgs)

\* Document(channel_content, extra_info={"channel": channel_id})
Document(text, channel_id) ==
    [text |-> text, extra_info |-> [channel |-> channel_id]]

\* A slip in AppendDocument: the Document put at the front of results.
AppendDocument_AtFront(docs, document) == <<document>> \o docs

\* results.append(document)
AppendDocument(docs, document) == Append(docs, document)

\* A slip in RepliesCursor: every conversations_replies request without cursor.
RepliesCursor_None == None

\* The cursor the next conversations_replies request of _read_message carries.
RepliesCursor == msg_cursor

\* The request log keeps the first MaxLog requests.
Logged(entry) == IF Len(log) < MaxLog THEN Append(log, entry) ELSE log

HistoryEntry(line, cursor, ok) ==
    [method |-> "conversations_history", line |-> line, call |-> ci,
     channel |-> load_kwargs.channel_ids[ci], ts |-> None, cursor |-> cursor,
     ok |-> ok]

RepliesEntry(ts, cursor, ok) ==
    [method |-> "conversations_replies", line |-> 53, call |-> ci,
     channel |-> load_kwargs.channel_ids[ci], ts |-> ts, cursor |-> cursor,
     ok |-> ok]

----------------------------------------------------------------------------
(* The state after construction, with one load_data call about to be made. *)

\* No page in hand.
NoResult == [messages |-> <<>>, has_more |-> FALSE, next_cursor |-> ""]

\* Sequences of at most n channel ids.
ChannelIdSeqs(n) == UNION {[1..k -> ChannelIds] : k \in 0..n}

\* load_kwargs with channel_ids given, and without it.
KwargsSet ==
    {[has_channel_ids |-> FALSE, channel_ids |-> <<>>]}
    \cup {[has_channel_ids |-> TRUE, channel_ids |-> s] : s \in ChannelIdSeqs(MaxChannels)}

\* The channel whose history is drawn from every shape; another channel has
\* one of OtherHistories.
StudiedChannel == "c1"

OtherHistories == {<<0>>, <<1>>}

\* The thread shapes of a call that reads several channels.
OtherThreads == {<<1>>, <<1, 1>>}

\* The remote data sets a call with these kwargs is run against. Every message
\* has a thread of the same shape, with its own texts. What the call never
\* requests is left at one value: the history of a channel that is not among
\* the channel ids, and the threads when no channel is read. fail_at is the
\* request of the call that fails with SlackApiError, counted from 1; 0 when
\* none fails.
RemoteSet(kwargs) ==
    LET n == Len(kwargs.channel_ids)
        asked == {kwargs.channel_ids[i] : i \in 1..n}
        histories(c) == IF c \notin asked THEN {<<0>>}
                        ELSE IF c = StudiedChannel THEN SizeVectors(MaxPerPage)
                        ELSE OtherHistories
        threads == IF n = 0 THEN {<<1>>}
                   ELSE IF n = 1 THEN SizeVectors(MaxPerThreadPage)
                   ELSE OtherThreads
        fails == IF n = 0 THEN {0} ELSE 0..MaxLog
    IN  {r \in [history : [ChannelIds -> SizeVectors(MaxPerPage) \cup OtherHistories],
                thread : threads, fail_at : fails] :
            \A c \in ChannelIds : r.history[c] \in histories(c)}

Init ==
    /\ load_kwargs \in KwargsSet
    /\ remote \in RemoteSet(load_kwargs)
    /\ pc = "call"
    /\ error = "none"
    /\ results = <<>>
    /\ ci = 0
    /\ result_messages = <<>>
    /\ next_cursor = None
    /\ result = NoResult
    /\ mi = 0
    /\ messages_text = <<>>
    /\ msg_cursor = None
    /\ log = <<>>
    /\ returned = <<>>
    /\ input_dir = <<>>
    /\ exclude_hidden = TRUE
    /\ input_files = <<>>
    /\ dir_pc = "idle"
    /\ dir_log = <<>>

----------------------------------------------------------------------------
(* load_data, _read_channel, _read_message. *)

\* A slip in channel_ids_is_None: the test "not channel_ids", true of an
\* empty collection as well.
channel_ids_is_falsy(kwargs) ==
    ~kwargs.has_channel_ids \/ Len(kwargs.channel_ids) = 0

\* channel_ids = load_kwargs.pop("channel_ids", None); channel_ids is None
channel_ids_is_None(kwargs) == ~kwargs.has_channel_ids

channel_ids == load_kwargs.channel_ids

\* The channel _read_channel is reading.
channel_id == channel_ids[ci]

\* A slip in NewResults: results kept on the reader from call to call.
NewResults_Kept == results

\* results = []
NewResults == <<>>

\* The cursor the conversations_history request inside the try carries.
InnerHistoryCursor == None

\* A slip in anchor_ts: the messages of the page taken from the last one back.
anchor_ts_Reversed == result.messages[Len(result.messages) + 1 - mi].ts

\* message["ts"] of the message _read_message is reading.
anchor_ts == result.messages[mi].ts

\* The remote answers the request about to be issued; it fails the fail_at-th.
RequestOk == Len(log) + 1 # remote.fail_at

\* _read_channel is entered for the k-th channel id.
EnterChannel(k) ==
    /\ ci' = k
    /\ result_messages' = <<>>
    /\ next_cursor' = None
    /\ result' = NoResult
    /\ mi' = 0
    /\ messages_text' = <<>>
    /\ msg_cursor' = None
    /\ pc' = "line78"

\* _read_message is entered for the m-th message of the page in hand.
EnterMessage(m) ==
    /\ mi' = m
    /\ messages_text' = <<>>
    /\ msg_cursor' = None
    /\ pc' = "line53"

\* A slip in ReadsNextCursor: the next cursor read before has_more is tested.
ReadsNextCursor_Always(page) == TRUE

\* Whether the reader reads result["response_metadata"]["next_cursor"] of a
\* page: the read comes after "if not result["has_more"]: break".
ReadsNextCursor(page) == page.has_more

\* The read of a next-cursor field that is not there: KeyError, which no
\* except clause of the reader catches.
RaiseKeyError ==
    /\ pc' = "raised"
    /\ error' = "KeyError"
    /\ UNCHANGED <<results, ci, result_messages, next_cursor, result, mi,
                   messages_text, msg_cursor>>

\* The for loop over the page is over with result_messages = rm: break when
\* the page has no more, else take its next cursor and go round again.
AfterPage(rm, page) ==
    IF ReadsNextCursor(page) /\ page.next_cursor = Missing
    THEN RaiseKeyError
    ELSE /\ result_messages' = rm
         /\ result' = page
         /\ mi' = 0
         /\ messages_text' = <<>>
         /\ msg_cursor' = None
         /\ IF ~page.has_more
            THEN /\ pc' = "line104"
                 /\ UNCHANGED next_cursor
            ELSE /\ pc' = "line78"
                 /\ next_cursor' = page.next_cursor
         /\ UNCHANGED <<results, ci, error>>

\* load_data up to the first remote request.
LoadData ==
    /\ pc = "call"
    /\ IF channel_ids_is_None(load_kwargs)
       THEN /\ pc' = "raised"
            /\ error' = "ValueError"
            /\ UNCHANGED <<results, ci, result_messages, next_cursor, result, mi,
                           messages_text, msg_cursor>>
       ELSE /\ error' = error
            /\ results' = NewResults
            /\ IF Len(channel_ids) = 0
               THEN /\ pc' = "done"
                    /\ UNCHANGED <<ci, result_messages, next_cursor, result, mi,
                                   messages_text, msg_cursor>>
               ELSE EnterChannel(1)
    /\ log' = <<>>
    /\ UNCHANGED <<dir_vars, load_kwargs, remote, returned>>

\* Line 78: conversations_history(channel=channel_id, cursor=next_cursor),
\* before the try: a SlackApiError leaves _read_channel and load_data.
HistoryRequest ==
    /\ pc = "line78"
    /\ Len(result_messages) < MaxOut
    /\ log' = Logged(HistoryEntry(78, next_cursor, RequestOk))
    /\ IF RequestOk
       THEN /\ result' = conversations_history(channel_id, next_cursor)
            /\ pc' = "line86"
            /\ UNCHANGED error
       ELSE /\ pc' = "raised"
            /\ error' = "SlackApiError"
            /\ UNCHANGED result
    /\ UNCHANGED <<dir_vars, load_kwargs, remote, results, ci, result_messages, next_cursor,
                   mi, messages_text, msg_cursor, returned>>

\* Line 86: conversations_history(channel=channel_id), inside the try: a
\* SlackApiError is logged and the while loop goes round again. The page it
\* returns is the one whose messages are read.
InnerHistoryRequest ==
    /\ pc = "line86"
    /\ log' = Logged(HistoryEntry(86, InnerHistoryCursor, RequestOk))
    /\ IF RequestOk
       THEN LET page == conversations_history(channel_id, InnerHistoryCursor)
            IN  IF Len(page.messages) = 0
                THEN AfterPage(result_messages, page)
                ELSE /\ result' = page
                     /\ EnterMessage(1)
                     /\ UNCHANGED <<results, ci, result_messages, next_cursor, error>>
       ELSE /\ pc' = "line78"
            /\ UNCHANGED <<results, ci, result_messages, next_cursor, result,
                           mi, messages_text, msg_cursor, error>>
    /\ UNCHANGED <<dir_vars, load_kwargs, remote, returned>>

\* Line 53: conversations_replies(channel=, ts=, cursor=next_cursor), before
\* the try of _read_message: a SlackApiError leaves _read_message and is
\* caught by the except of _read_channel, whose while loop goes round again.
RepliesRequest ==
    /\ pc = "line53"
    /\ log' = Logged(RepliesEntry(anchor_ts, RepliesCursor, RequestOk))
    /\ IF RequestOk
       THEN LET page == conversations_replies(channel_id, anchor_ts, RepliesCursor)
                texts == AppendTexts(messages_text, page.messages)
                rm == Append(result_messages, ThreadText(texts))
            IN  IF ReadsNextCursor(page) /\ page.next_cursor = Missing
                THEN RaiseKeyError
                ELSE IF page.has_more
                THEN /\ messages_text' = texts
                     /\ msg_cursor' = page.next_cursor
                     /\ UNCHANGED <<pc, results, ci, result_messages,
                                    next_cursor, result, mi, error>>
                ELSE IF mi < Len(result.messages)
                THEN /\ result_messages' = rm
                     /\ EnterMessage(mi + 1)
                     /\ UNCHANGED <<results, ci, next_cursor, result, error>>
                ELSE AfterPage(rm, result)
       ELSE /\ pc' = "line78"
            /\ mi' = 0
            /\ messages_text' = <<>>
            /\ msg_cursor' = None
            /\ UNCHANGED <<results, ci, result_messages, next_cursor, result, error>>
    /\ UNCHANGED <<dir_vars, load_kwargs, remote, returned>>

\* Line 104 and lines 121-126: _read_channel returns the joined texts,
\* load_data appends the Document and goes on to the next channel id, or
\* returns results.
ReadChannelReturn ==
    /\ pc = "line104"
    /\ results' = AppendDocument(results,
                      Document(ChannelContent(result_messages), channel_id))
    /\ IF ci < Len(channel_ids)
       THEN EnterChannel(ci + 1)
       ELSE /\ pc' = "done"
            /\ result_messages' = <<>>
            /\ result' = NoResult
            /\ UNCHANGED <<ci, next_cursor, mi, messages_text, msg_cursor>>
    /\ UNCHANGED <<dir_vars, load_kwargs, remote, error, log, returned>>

\* What the call that has ended gave its caller: the exception, or results.
Outcome == [error |-> error, results |-> IF error = "none" THEN results ELSE <<>>]

\* The caller calls load_data again, with the same keyword arguments, on the
\* same reader and against the same remote data set. The locals of the call
\* that has ended are left as they were: nothing of them is passed on.
CallAgain ==
    /\ pc \in {"done", "raised"}
    /\ Len(returned) + 1 < MaxCalls
    /\ returned' = Append(returned, Outcome)
    /\ pc' = "call"
    /\ error' = "none"
    /\ UNCHANGED <<dir_vars, load_kwargs, remote, results, ci, result_messages, next_cursor,
                   result, mi, messages_text, msg_cursor, log>>

Next ==
    \/ LoadData
    \/ HistoryRequest
    \/ InnerHistoryRequest
    \/ RepliesRequest
    \/ ReadChannelReturn
    \/ CallAgain

Spec == Init /\ [][Next]_vars

\* The reader is one thread of control: it takes its next step whenever it has one.
FairSpec == Init /\ [][Next]_vars /\ WF_vars(Next)

----------------------------------------------------------------------------
(* SimpleDirectoryReader: the directory. *)

\* The entries a directory is made of. A name is the sequence of its
\* characters; data is what f.read() gives for a regular file.
DirEntries ==
    { [name |-> <<"a", ".", "t">>, is_file |-> TRUE,  data |-> "foo"],
      [name |-> <<"b">>,           is_file |-> TRUE,  data |-> "bar"],
      [name |-> <<"e">>,           is_file |-> TRUE,  data |-> ""],
      [name |-> <<".", "h">>,      is_file |-> TRUE,  data |-> "hid"],
      [name |-> <<"s">>,           is_file |-> FALSE, data |-> ""],
      [name |-> <<".", "g">>,      is_file |-> FALSE, data |-> ""] }

\* Directories of at most n entries, in every iteration order.
Directories(n) ==
    {d \in UNION {[1..k -> DirEntries] : k \in 0..n} :
        \A i, j \in 1..Len(d) : d[i] = d[j] => i = j}

\* load_kwargs of SimpleDirectoryReader.load_data: concatenate given or not.
DirKwargsSet ==
    { [has_concatenate |-> FALSE, concatenate |-> FALSE],
      [has_concatenate |-> TRUE,  concatenate |-> TRUE],
      [has_concatenate |-> TRUE,  concatenate |-> FALSE] }

\* The SlackReader takes no step in DirSpec.
DirInit ==
    /\ load_kwargs = [has_channel_ids |-> FALSE, channel_ids |-> <<>>]
    /\ remote = [history |-> [c \in ChannelIds |-> <<0>>], thread |-> <<1>>,
                 fail_at |-> 0]
    /\ pc = "idle"
    /\ error = "none"
    /\ results = <<>>
    /\ ci = 0
    /\ result_messages = <<>>
    /\ next_cursor = None
    /\ result = NoResult
    /\ mi = 0
    /\ messages_text = <<>>
    /\ msg_cursor = None
    /\ log = <<>>
    /\ returned = <<>>
    /\ input_dir \in Directories(MaxEntries)
    /\ exclude_hidden \in BOOLEAN
    /\ input_files = <<>>
    /\ dir_pc = "new"
    /\ dir_log = <<>>

----------------------------------------------------------------------------
(* SimpleDirectoryReader: __init__ and load_data. *)

\* name.startswith(prefix)
startswith(name, prefix) ==
    /\ Len(name) >= Len(prefix)
    /\ SubSeq(name, 1, Len(prefix)) = prefix

\* [f for f in input_files if not f.name.startswith(".")]
ExcludeHidden(files) ==
    SelectSeq(files, LAMBDA f : ~startswith(f.name, <<".">>))

\* A slip in Checked: is_file asked of what iterdir listed, hidden or not.
Checked_BeforeExclusion(listed, kept) == listed

\* The entries the loop of __init__ asks is_file of: those of input_files
\* as it stands after the exclusion.
Checked(listed, kept) == kept

\* __init__: list the directory, drop the hidden entries if asked to, raise
\* ValueError at an entry that is no regular file, else keep the list.
Construct ==
    /\ dir_pc = "new"
    /\ LET listed == input_dir
           kept == IF exclude_hidden THEN ExcludeHidden(listed) ELSE listed
           checked == Checked(listed, kept)
       IN  IF \E i \in 1..Len(checked) : ~checked[i].is_file
           THEN /\ dir_pc' = "raised"
                /\ UNCHANGED input_files
           ELSE /\ dir_pc' = "constructed"
                /\ input_files' = [i \in 1..Len(kept) |-> kept[i].name]
    /\ UNCHANGED <<slack_vars, input_dir, exclude_hidden, dir_log>>

\* load_kwargs.get("concatenate", True)
concatenate(kwargs) == IF kwargs.has_concatenate THEN kwargs.concatenate ELSE TRUE

\* open(input_file, "r").read(): the data of the entry of that name, as the
\* directory holds it when load_data runs.
read(input_file) == (CHOOSE e \in {input_dir[i] : i \in 1..Len(input_dir)} :
                         e.name = input_file).data

\* A slip in FilesToRead: load_data listing the directory again.
FilesToRead_Relisted ==
    LET kept == IF exclude_hidden THEN ExcludeHidden(input_dir) ELSE input_dir
    IN  [i \in 1..Len(kept) |-> kept[i].name]

\* for input_file in self.input_files
FilesToRead == input_files

\* Document(text)
DirDocument(text) == [text |-> text]

\* A slip in Documents: the contents joined with nothing between them.
Documents_Unseparated(concat, data_list) ==
    IF concat
    THEN <<DirDocument(Join("", data_list))>>
    ELSE [i \in 1..Len(data_list) |-> DirDocument(data_list[i])]

\* [Document("\n".join(data_list))] or [Document(d) for d in data_list]
Documents(concat, data_list) ==
    IF concat
    THEN <<DirDocument(Join("\n", data_list))>>
    ELSE [i \in 1..Len(data_list) |-> DirDocument(data_list[i])]

\* load_data: read every file of self.input_files, in order, and return the
\* Documents.
DirLoadData ==
    /\ dir_pc = "constructed"
    /\ Len(dir_log) < MaxDirLog
    /\ \E kwargs \in DirKwargsSet :
          LET files == FilesToRead
              data_list == [i \in 1..Len(files) |-> read(files[i])]
          IN  dir_log' = Append(dir_log,
                  [op |-> "load_data", kwargs |-> kwargs, opened |-> files,
                   docs |-> Documents(concatenate(kwargs), data_list)])
    /\ UNCHANGED <<slack_vars, input_dir, exclude_hidden, input_files, dir_pc>>

\* Somebody else puts a regular file into the directory of a constructed
\* reader; iterdir may give it at any place from then on.
AddFile ==
    /\ dir_pc = "constructed"
    /\ Len(dir_log) < MaxDirLog
    /\ Len(input_dir) < MaxEntries
    /\ \E e \in DirEntries, at \in 0..Len(input_dir) :
          /\ e.is_file
          /\ \A i \in 1..Len(input_dir) : input_dir[i].name # e.name
          /\ input_dir' = SubSeq(input_dir, 1, at) \o <<e>>
                              \o SubSeq(input_dir, at + 1, Len(input_dir))
          /\ dir_log' = Append(dir_log, [op |-> "add", name |-> e.name])
    /\ UNCHANGED <<slack_vars, exclude_hidden, input_files, dir_pc>>

DirNext ==
    \/ Construct
    \/ DirLoadData
    \/ AddFile

DirSpec == DirInit /\ [][DirNext]_vars

----------------------------------------------------------------------------
(* What the remote data set holds, read off it without the reader. *)

\* seq[1] + "\n\n" + seq[2] + ... + "\n\n" + seq[n]; "" for no element.
RECURSIVE BlankLineJoined(_)
BlankLineJoined(seq) ==
    IF seq = <<>> THEN ""
    ELSE IF Len(seq) = 1 THEN seq[1]
    ELSE BlankLineJoined(SubSeq(seq, 1, Len(seq) - 1)) \o "\n\n" \o seq[Len(seq)]

\* The texts of the whole thread anchored at ts in channel c, in server order.
WholeThread(c, ts) ==
    [j \in 1..SumUpTo(remote.thread, Len(remote.thread)) |-> TextOf(c, ts, j)]

\* The thread-expanded content of the first k pages of the history of c.
ExpandedPages(c, k) ==
    BlankLineJoined([n \in 1..SumUpTo(remote.history[c], k) |->
                        BlankLineJoined(WholeThread(c, TsOf(n)))])

\* The call was made without channel_ids.
Absent == ~load_kwargs.has_channel_ids

\* Some request of the i-th _read_channel call failed.
FailedIn(i) == \E k \in 1..Len(log) : log[k].call = i /\ ~log[k].ok

\* The i-th channel id has a history of one page.
SinglePage(i) == Len(remote.history[channel_ids[i]]) = 1

----------------------------------------------------------------------------
(* The claims. *)

\* C1: a load_data call with a non-empty collection of channel ids that
\* returns, returns exactly one Document per channel id, in input order: the
\* i-th Document carries extra_info channel equal to the i-th channel id.
\* While the call runs, results holds the Documents of the channel ids read
\* so far, in that order.
C1_OneDocumentPerChannel ==
    (~Absent /\ Len(channel_ids) > 0) =>
        /\ pc = "done" => Len(results) = Len(channel_ids)
        /\ pc \in {"line78", "line86", "line53", "line104"} => Len(results) = ci - 1
        /\ Len(results) <= Len(channel_ids)
        /\ \A i \in 1..Len(results) :
              /\ DOMAIN results[i].extra_info = {"channel"}
              /\ results[i].extra_info.channel = channel_ids[i]

\* C1 witness: a call with two different channel ids, the greater first, has returned.
C1_Witness ==
    /\ pc = "done"
    /\ channel_ids = <<"c2", "c1">>
    /\ Len(results) = 2

C8_ThreadText ==
    [][(pc = "line53" /\ result_messages' # result_messages) =>
          /\ result_messages' =
                Append(result_messages, BlankLineJoined(WholeThread(channel_id, anchor_ts)))
          /\ Len(result_messages) >= mi - 1
          /\ \A j \in 1..(mi - 1) :
                result_messages[Len(result_messages) - (mi - 1) + j] =
                    BlankLineJoined(WholeThread(channel_id, result.messages[j].ts))]_vars

\* C8 witness: the thread of the second message of a page, an anchor and two
\* replies over two pages, has been read.
C8_Witness ==
    /\ remote.thread = <<1, 2>>
    /\ pc = "line104"
    /\ Len(result_messages) = 2
    /\ result_messages[2] =
          "c1/ts2/1" \o "\n\n" \o "c1/ts2/2" \o "\n\n" \o "c1/ts2/3"

\* C9: the Document of a channel whose history is one page, read without a
\* failure, has as body the thread texts of the page's messages joined with
\* "\n\n", one per message record, in the order of the page.
C9_ChannelBody ==
    \A i \in 1..Len(results) :
        (SinglePage(i) /\ ~FailedIn(i)) =>
            results[i].text =
                BlankLineJoined([n \in 1..remote.history[channel_ids[i]][1] |->
                    BlankLineJoined(WholeThread(channel_ids[i], TsOf(n)))])

\* C9 witness: the Document of a channel with two messages without replies.
C9_Witness ==
    /\ pc = "done"
    /\ remote.fail_at = 0
    /\ remote.thread = <<1>>
    /\ remote.history["c1"] = <<2>>
    /\ channel_ids = <<"c1">>
    /\ results[1].text = "c1/ts1/1" \o "\n\n" \o "c1/ts2/1"

\* C10: the Document of a channel with zero messages (one history page with
\* no record and has_more false) has the empty string as body and exactly
\* {"channel": channel_id} as extra info, and no conversations_replies request
\* is issued for that channel.
C10_EmptyChannel ==
    /\ \A i \in 1..Len(results) :
          remote.history[channel_ids[i]] = <<0>> =>
              /\ results[i] = [text |-> "", extra_info |-> [channel |-> channel_ids[i]]]
              /\ \A k \in 1..Len(log) :
                    log[k].call = i => log[k].method # "conversations_replies"
    /\ (pc = "line53" => remote.history[channel_id] # <<0>>)

\* C10 witness: a call has returned the Document of a channel with zero
\* messages after that of a channel with a message.
C10_Witness ==
    /\ pc = "done"
    /\ Len(results) = 2
    /\ remote.history[channel_ids[1]] = <<1>>
    /\ remote.history[channel_ids[2]] = <<0>>
    /\ results[2].text = ""

\* The thread texts of the messages of the first k pages of the history of c.
ThreadBlocks(c, k) ==
    [n \in 1..SumUpTo(remote.history[c], k) |-> BlankLineJoined(WholeThread(c, TsOf(n)))]

IsPrefix(s, t) == Len(s) <= Len(t) /\ \A i \in 1..Len(s) : s[i] = t[i]

\* _read_channel is running.
InReadChannel == pc \in {"line78", "line86", "line53", "line104"}

\* C2: in a read of a channel in which no request fails, the records of every
\* page are read exactly once, in page order and across pages in cursor order:
\* the page whose messages are read is the page of the current cursor, what
\* has been read is an initial part of the whole history, and the Document
\* body covers the whole history.
C2_EveryPageOnceInOrder ==
    /\ (InReadChannel /\ ~FailedIn(ci)) =>
          /\ IsPrefix(result_messages,
                      ThreadBlocks(channel_id, Len(remote.history[channel_id])))
          /\ pc = "line53" => result = conversations_history(channel_id, next_cursor)
    /\ \A i \in 1..Len(results) :
          ~FailedIn(i) =>
              results[i].text =
                  ExpandedPages(channel_ids[i], Len(remote.history[channel_ids[i]]))

\* The model has stopped a read whose result_messages reached MaxOut entries.
OutputBoundReached == pc = "line78" /\ Len(result_messages) >= MaxOut

\* C3: when no request fails, load_data terminates on every channel whose
\* history is a finite chain of pages, also when the first page has has_more
\* true (runs the model cuts short at MaxOut entries are left aside).
C3_Terminates ==
    <>(pc \in {"done", "raised"} \/ remote.fail_at # 0 \/ OutputBoundReached)

\* C4: when the history request for page k+1 fails after pages 1..k were
\* read, no error reaches the caller of load_data, and the Document of that
\* channel has the thread-expanded content of pages 1..k as body.
C4_PartialHistory ==
    \A j \in 1..Len(log) :
        (/\ log[j].method = "conversations_history"
         /\ ~log[j].ok
         /\ log[j].cursor # None) =>
            /\ error = "none"
            /\ log[j].call <= Len(results) =>
                  results[log[j].call].text =
                      ExpandedPages(log[j].channel,
                          PageIndex(remote.history[log[j].channel], log[j].cursor) - 1)

\* C5: when a conversations_replies request fails, _read_message returns the
\* join of the texts it has read so far, which _read_channel appends; the
\* error does not reach _read_channel.
C5_PartialThread ==
    [][(pc = "line53" /\ ~RequestOk) =>
          result_messages' = Append(result_messages, BlankLineJoined(messages_text))]_vars

\* C6: once a page request of a pagination sequence (the history of one
\* channel read, or the thread of one anchor of it) has failed, no further
\* page request is issued for that sequence.
C6_NoRetry ==
    \A j, k \in 1..Len(log) :
        (j < k /\ ~log[j].ok) =>
            ~(/\ log[k].method = log[j].method
              /\ log[k].call = log[j].call
              /\ log[k].ts = log[j].ts)

\* C11: a load_data call repeated with the same channel ids against the same
\* remote data set (the same pages, cursors and failing request) ends as the
\* call before it did: it returns Documents with the same bodies and the same
\* extra info, or raises the same error. Nothing the reader keeps from one
\* call changes the next.
C11_SameOutcome ==
    pc \in {"done", "raised"} =>
        \A k \in 1..Len(returned) :
            /\ returned[k].error = error
            /\ error = "none" => returned[k].results = results

\* C11 witness: a second call has returned two Documents, after a failed
\* request in each call.
C11_Witness ==
    /\ pc = "done"
    /\ Len(returned) = 1
    /\ Len(results) = 2
    /\ results[1].text # ""
    /\ \E k \in 1..Len(log) : ~log[k].ok

\* The conversations_history requests of the i-th _read_channel call, as
\* positions of log.
HistoryRequests(i) ==
    {k \in 1..Len(log) : log[k].call = i /\ log[k].method = "conversations_history"}

\* C14: a read of a channel with n pages in which no request fails issues
\* exactly n conversations_history requests; the first carries no cursor and
\* every later one carries a cursor.
C14_OneRequestPerPage ==
    (pc = "line104" /\ ~FailedIn(ci) /\ Len(log) < MaxLog) =>
        /\ Cardinality(HistoryRequests(ci)) = Len(remote.history[channel_id])
        /\ \A k \in HistoryRequests(ci) :
              (log[k].cursor = None) <=> (\A j \in HistoryRequests(ci) : k <= j)

\* The page the remote gave in answer to a conversations_replies request.
RepliesAnswer(e) ==
    RepliesPage(e.channel, e.ts, remote.thread, PageIndex(remote.thread, e.cursor))

\* log[k] goes on with the thread that log[k-1] was a request of.
SameThread(k) ==
    /\ k > 1
    /\ log[k - 1].method = "conversations_replies"
    /\ log[k - 1].call = log[k].call
    /\ log[k - 1].ts = log[k].ts
    /\ log[k - 1].ok

\* The cursor of every conversations_replies request: none when it is the
\* first of its _read_message call, else the next cursor of the page before
\* it; and no request follows a page with has_more false.
ThreadCursorDiscipline ==
    \A k \in 1..Len(log) :
        log[k].method = "conversations_replies" =>
            IF SameThread(k)
            THEN /\ RepliesAnswer(log[k - 1]).has_more
                 /\ log[k].cursor = RepliesAnswer(log[k - 1]).next_cursor
            ELSE log[k].cursor = None

\* A page with has_more false closes a thread of n pages after n requests,
\* one for each page, in page order.
EachThreadPageOnce ==
    \A k \in 1..Len(log) :
        (log[k].method = "conversations_replies" /\ log[k].ok
            /\ ~RepliesAnswer(log[k]).has_more) =>
            LET n == Len(remote.thread)
            IN  /\ k >= n
                /\ ~SameThread(k - n + 1)
                /\ \A i \in 1..n :
                      /\ log[k - n + i].method = "conversations_replies"
                      /\ log[k - n + i].ts = log[k].ts
                      /\ log[k - n + i].call = log[k].call
                      /\ PageIndex(remote.thread, log[k - n + i].cursor) = i

\* C15: within one _read_message call the first conversations_replies request
\* carries no cursor, every later one carries the next cursor of the page
\* before it, no request follows the first page with has_more false, and the
\* reader does not stay inside one thread for ever: the call ends, each page
\* of the thread requested exactly once.
C15_ThreadCursor ==
    /\ []ThreadCursorDiscipline
    /\ []EachThreadPageOnce
    /\ []<>(pc # "line53" \/ msg_cursor = None)

\* C15 witness: a thread of two pages has been read to its end, the second
\* page requested with the cursor of the first.
C15_Witness ==
    /\ pc = "line104"
    /\ Len(remote.thread) = 2
    /\ Len(log) = 4
    /\ log[3].cursor = None
    /\ log[4].cursor = "cur1"
    /\ log[4].ok

\* C16: in both paginators a page with has_more false ends the pagination
\* and its next cursor is not read: a last page without the next-cursor field
\* raises no KeyError, and no cursor is taken from it.
C16_LastPageEndsPagination ==
    /\ error # "KeyError"
    /\ next_cursor # Missing
    /\ msg_cursor # Missing
    /\ pc = "line104" => (~result.has_more /\ result.next_cursor = Missing)

\* C16 witness: a channel whose one history page and whose two-page thread
\* both end in a page without the next-cursor field has been read.
C16_Witness ==
    /\ pc = "line104"
    /\ error = "none"
    /\ result.next_cursor = Missing
    /\ Len(result.messages) = 1
    /\ Len(remote.thread) = 2
    /\ remote.fail_at = 0

\* The history page a conversations_history request of log asks for.
HistoryAnswer(e) ==
    HistoryPage(remote.history[e.channel], PageIndex(remote.history[e.channel], e.cursor))

\* The messages of the history page on which the message with this ts is.
PageWith(c, ts) ==
    LET sizes == remote.history[c]
        p == CHOOSE q \in 1..Len(sizes) :
                 \E i \in 1..sizes[q] : HistoryPage(sizes, q).messages[i].ts = ts
    IN  HistoryPage(sizes, p).messages

\* The place of the message with this ts on its page.
PlaceOn(page_messages, ts) ==
    CHOOSE i \in 1..Len(page_messages) : page_messages[i].ts = ts

\* What may follow the request e in the log: f is the request after it.
Follows(e, f) ==
    LET history(x, line) == x.method = "conversations_history" /\ x.line = line
        replies(x, ts) == x.method = "conversations_replies" /\ x.ts = ts
        msgs == PageWith(e.channel, e.ts)
        endsThread == e.ok /\ ~RepliesAnswer(e).has_more
        lastOnPage == PlaceOn(msgs, e.ts) = Len(msgs)
        endsChannel ==
            \/ /\ history(e, 86) /\ e.ok
               /\ HistoryAnswer(e).messages = <<>> /\ ~HistoryAnswer(e).has_more
            \/ e.method = "conversations_replies" /\ endsThread /\ lastOnPage
    IN  IF f.call # e.call
        THEN f.call = e.call + 1 /\ endsChannel /\ history(f, 78) /\ f.cursor = None
        ELSE IF history(e, 78) THEN e.ok /\ history(f, 86)
        ELSE IF history(e, 86)
        THEN IF e.ok /\ HistoryAnswer(e).messages # <<>>
             THEN replies(f, HistoryAnswer(e).messages[1].ts) /\ f.cursor = None
             ELSE history(f, 78)
        ELSE IF ~e.ok THEN history(f, 78)
        ELSE IF ~endsThread THEN replies(f, e.ts)
        ELSE IF ~lastOnPage THEN replies(f, msgs[PlaceOn(msgs, e.ts) + 1].ts)
        ELSE history(f, 78)

\* C17: the requests of a load_data call are issued one after the other, each
\* answered before the next: every request for channel i comes before any for
\* channel i+1, and within a channel the threads of the messages of a history
\* page are fetched in message order, each to its end, before the next
\* conversations_history request.
C17_RequestOrder ==
    /\ \A k \in 1..Len(log) :
          /\ log[k].call \in 1..Len(channel_ids)
          /\ log[k].channel = channel_ids[log[k].call]
          /\ \A j \in 1..k : log[j].call <= log[k].call
    /\ \A k \in 1..(Len(log) - 1) : Follows(log[k], log[k + 1])

\* C17 witness: a call has read two channels, with threads of messages of both
\* requested.
C17_Witness ==
    /\ pc = "done"
    /\ channel_ids = <<"c1", "c2">>
    /\ \E j, k \in 1..Len(log) :
          /\ log[j].call = 1 /\ log[j].method = "conversations_replies"
          /\ log[k].call = 2 /\ log[k].method = "conversations_replies"
    /\ Len(remote.history["c1"]) = 1
    /\ remote.history["c1"][1] = 2

----------------------------------------------------------------------------
(* SimpleDirectoryReader: what the directory holds, read off it without the
   reader. *)

\* seq[1] + "\n" + seq[2] + ... + "\n" + seq[n]; "" for no element.
RECURSIVE LineJoined(_)
LineJoined(seq) ==
    IF seq = <<>> THEN ""
    ELSE IF Len(seq) = 1 THEN seq[1]
    ELSE LineJoined(SubSeq(seq, 1, Len(seq) - 1)) \o "\n" \o seq[Len(seq)]

\* The content of the file of this name.
ContentOf(name) ==
    LET i == CHOOSE j \in 1..Len(input_dir) : input_dir[j].name = name
    IN  input_dir[i].data

\* The contents of the files of the reader's list, in its order.
ListedContents == [i \in 1..Len(input_files) |-> ContentOf(input_files[i])]

\* The name is dot-prefixed.
Hidden(name) == name # <<>> /\ Head(name) = "."

\* The load_data calls of dir_log, as positions of it.
Loads == {k \in 1..Len(dir_log) : dir_log[k].op = "load_data"}

\* The call asked for one Document: concatenate true, or not given.
Concatenating(kwargs) == ~kwargs.has_concatenate \/ kwargs.concatenate

\* C12: load_data with concatenate true, or without concatenate, returns
\* exactly one Document, whose body is the contents of the files joined with
\* "\n" in the order of the enumeration; with concatenate false it returns
\* one Document for each file, in that order, whose body is the content of
\* the file.
C12_ConcatenateOrSplit ==
    \A k \in Loads :
        LET docs == dir_log[k].docs
        IN  IF Concatenating(dir_log[k].kwargs)
            THEN /\ Len(docs) = 1
                 /\ docs[1].text = LineJoined(ListedContents)
            ELSE /\ Len(docs) = Len(input_files)
                 /\ \A i \in 1..Len(docs) : docs[i].text = ListedContents[i]

\* C12 witness: a directory of the files "foo" and "bar", in that order,
\* loaded once without concatenate and once with concatenate false.
C12_Witness ==
    /\ Len(dir_log) = 2
    /\ ListedContents = <<"foo", "bar">>
    /\ ~dir_log[1].kwargs.has_concatenate
    /\ dir_log[1].docs = <<[text |-> "foo\nbar"]>>
    /\ Concatenating(dir_log[2].kwargs) = FALSE
    /\ Len(dir_log[2].docs) = 2

\* The step is the construction of the reader.
Constructing == dir_pc = "new" /\ dir_pc' # "new"

\* No reader that failed to construct has loaded, and with the exclusion of
\* hidden files requested no dot-prefixed entry is on the list or is opened.
HiddenSkipped ==
    /\ dir_pc = "raised" => Loads = {}
    /\ exclude_hidden =>
          /\ \A i \in 1..Len(input_files) : ~Hidden(input_files[i])
          /\ \A k \in Loads : \A i \in 1..Len(dir_log[k].opened) :
                ~Hidden(dir_log[k].opened[i])

\* C13 as the specification words it: the construction fails with ValueError
\* whenever the directory holds an entry that is no regular file, so that no
\* Document comes from such a directory; with the exclusion of hidden files
\* requested, dot-prefixed entries are skipped and are in no Document.
C13_RejectsAnyNonRegular ==
    /\ [][Constructing =>
            ((\E i \in 1..Len(input_dir) : ~input_dir[i].is_file)
                => dir_pc' = "raised")]_vars
    /\ []HiddenSkipped

\* C13: the construction fails with ValueError exactly when an entry that is
\* no regular file is left after the exclusion of hidden entries (when the
\* exclusion is requested, a dot-prefixed entry is skipped whatever it is),
\* and a reader that failed to construct loads nothing; with the exclusion
\* requested, dot-prefixed entries are skipped and are in no Document.
C13_RejectsListedNonRegular ==
    /\ [][Constructing =>
            ((dir_pc' = "raised") <=>
                \E i \in 1..Len(input_dir) :
                    /\ ~input_dir[i].is_file
                    /\ ~(exclude_hidden /\ Hidden(input_dir[i].name)))]_vars
    /\ []HiddenSkipped

\* C13 witness: the construction has failed on a directory with an entry that
\* is no regular file and is not dot-prefixed, hidden entries being excluded
\* and one being there.
C13_Witness ==
    /\ dir_pc = "raised"
    /\ exclude_hidden
    /\ \E i \in 1..Len(input_dir) :
          ~input_dir[i].is_file /\ ~Hidden(input_dir[i].name)
    /\ \E i \in 1..Len(input_dir) : Hidden(input_dir[i].name)

\* C18: the list of files is fixed at construction: no later step changes
\* it, every load_data call opens exactly the files of the list, in its
\* order, so that a file added after the construction is opened by no call,
\* and two calls with the same concatenate return equal Documents.
C18_FileListFixed ==
    /\ [][dir_pc = "constructed" => input_files' = input_files]_vars
    /\ [](\A k \in Loads :
            /\ dir_log[k].opened = input_files
            /\ \A j \in 1..Len(dir_log) :
                  dir_log[j].op = "add" =>
                      \A i \in 1..Len(dir_log[k].opened) :
                          dir_log[k].opened[i] # dir_log[j].name)
    /\ [](\A j, k \in Loads :
            Concatenating(dir_log[j].kwargs) = Concatenating(dir_log[k].kwargs)
                => dir_log[j].docs = dir_log[k].docs)

\* C18 witness: a load, then a file that is not hidden added in front of the
\* listed ones, then a second load with the same concatenate.
C18_Witness ==
    /\ Len(dir_log) = 3
    /\ dir_log[1].op = "load_data"
    /\ dir_log[2].op = "add"
    /\ dir_log[3].op = "load_data"
    /\ dir_log[1].kwargs = dir_log[3].kwargs
    /\ ~Hidden(dir_log[2].name)
    /\ input_dir[1].name = dir_log[2].name
    /\ Len(input_files) = 2

====
